---- MODULE Spec2Model ----
(***************************************************************************)
(* webpki: the chain builder (src/src/verify_cert.rs) and the public       *)
(* surface that starts it (src/src/webpki.rs).                             *)
(*                                                                         *)
(* The recursion of build_chain is modelled with an explicit stack of      *)
(* frames, one per active invocation.  A Cert's ee_or_ca back-pointer      *)
(* CA(child) is the frame below it on the stack.                           *)
(*                                                                         *)
(* DER values are modelled at the tag/value level: an extension value is   *)
(* the sequence of its elements [tag, val], val being the content bytes.   *)
(* Distinguished names and keys are small integers compared for equality.  *)
(***************************************************************************)
EXTENDS Integers, Sequences, FiniteSets, TLC

VARIABLES
    cert,                \* the end-entity certificate (EndEntityCert.inner)
    intermediate_certs,  \* the DER intermediates handed by the caller
    trust_anchors,       \* the trust anchors handed by the caller
    time,                \* the validation time
    supported_sig_algs,  \* the signature algorithms the caller accepts
    stack,               \* active build_chain invocations, end-entity first
    result,              \* what verify_is_valid_tls_server_cert returned
    fn_args,             \* arguments of a directly called pure function
    fn_result            \* and what it returned

vars == <<cert, intermediate_certs, trust_anchors, time, supported_sig_algs,
          stack, result, fn_args, fn_result>>

inputs == <<cert, intermediate_certs, trust_anchors, time, supported_sig_algs>>

-----------------------------------------------------------------------------
(* Bounds of the model *)

MaxChain == 8        \* longest linear chain of intermediates drawn
MaxGraph == 2        \* intermediates of an arbitrary issuer graph, over MaxGraph + 1 names
MaxTime == 2         \* instants 0..MaxTime
MaxPathLen == 2      \* pathLenConstraint values 0..MaxPathLen drawn
MaxSubCaArg == 7     \* sub_ca_count values given to check_basic_constraints
MaxEku == 3          \* key purposes listed in an EKU extension
MaxPermuted == 3     \* longest list taken in every one of its orders
MaxTrailing == 2     \* bytes put after a complete time value

-----------------------------------------------------------------------------
(* Option<T> and Result<T, Error> *)

None == [some |-> FALSE, value |-> <<>>]
Some(v) == [some |-> TRUE, value |-> v]

Ok(v) == [err |-> "Ok", val |-> v]
Err(e) == [err |-> e, val |-> 0]

-----------------------------------------------------------------------------
(* DER elements *)

Elem(tag, val) == [tag |-> tag, val |-> val]

\* input.peek(tag): the next element, if any, has this tag
peek(input, tag) == Len(input) > 0 /\ Head(input).tag = tag

at_end(input) == Len(input) = 0

\* a reader position after a read: the value read and what is left
Read(v, rest) == [err |-> "Ok", val |-> v, rest |-> rest]
ReadErr(e) == [err |-> e, val |-> 0, rest |-> <<>>]

optional_boolean(input) ==
    IF ~peek(input, "Boolean") THEN Read(FALSE, input)
    ELSE LET v == Head(input).val IN
         IF v = <<255>> THEN Read(TRUE, Tail(input))
         ELSE IF v = <<0>> THEN Read(FALSE, Tail(input))
         ELSE ReadErr("BadDER")

\* ring's helper behind der::small_nonnegative_integer: an INTEGER whose
\* value fits one byte, with DER's leading zero for values >= 128
small_nonnegative_integer(input) ==
    IF ~peek(input, "Integer") THEN ReadErr("BadDER")
    ELSE LET v == Head(input).val IN
         IF Len(v) = 1 /\ v[1] < 128 THEN Read(v[1], Tail(input))
         ELSE IF Len(v) = 2 /\ v[1] = 0 /\ v[2] >= 128
              THEN Read(v[2], Tail(input))
         ELSE ReadErr("BadDER")

\* a time element is the decoded instant, or marks an encoding that
\* time_choice refuses; the decoding of the bytes is time_choice_der
time_choice(input) ==
    IF ~(peek(input, "UTCTime") \/ peek(input, "GeneralizedTime"))
    THEN ReadErr("BadDER")
    ELSE LET v == Head(input).val IN
         IF v.wellformed THEN Read(v.t, Tail(input))
         ELSE ReadErr("BadDERTime")

-----------------------------------------------------------------------------
(* Key purposes *)

EKU_SERVER_AUTH == [oid_value |-> <<43, 6, 1, 5, 5, 7, 3, 1>>]
EKU_OCSP_SIGNING == [oid_value |-> <<43, 6, 1, 5, 5, 7, 3, 9>>]
EKU_NETSCAPE_SERVER_STEP_UP ==
    [oid_value |-> <<96, 134, 72, 1, 134, 248, 66, 4, 1>>]
\* id-kp-clientAuth, a purpose the library does not name
EKU_CLIENT_AUTH == [oid_value |-> <<43, 6, 1, 5, 5, 7, 3, 2>>]

-----------------------------------------------------------------------------
(* Issuer-independent checks *)

check_validity_mut_strict(input, t) ==
    LET nb == time_choice(input) IN
    IF nb.err # "Ok" THEN nb.err
    ELSE LET na == time_choice(nb.rest) IN
    IF na.err # "Ok" THEN na.err
    ELSE IF nb.val > na.val THEN "InvalidCertValidity"
    ELSE IF t <= nb.val THEN "CertNotValidYet"
    ELSE IF t >= na.val THEN "CertExpired"
    ELSE IF ~at_end(na.rest) THEN "BadDER"
    ELSE "Ok"

check_validity_mut_expiry(input, t) ==
    LET nb == time_choice(input) IN
    IF nb.err # "Ok" THEN nb.err
    ELSE LET na == time_choice(nb.rest) IN
    IF na.err # "Ok" THEN na.err
    ELSE IF nb.val > na.val THEN "InvalidCertValidity"
    ELSE IF t < nb.val THEN "CertNotValidYet"
    ELSE IF t >= na.val THEN "CertExpired"
    ELSE IF ~at_end(na.rest) THEN "BadDER"
    ELSE "Ok"

\* cert.validity.read_all(Error::BadDER, |value| check_validity(value, time))
check_validity(input, t) ==
    LET nb == time_choice(input) IN
    IF nb.err # "Ok" THEN nb.err
    ELSE LET na == time_choice(nb.rest) IN
    IF na.err # "Ok" THEN na.err
    ELSE IF nb.val > na.val THEN "InvalidCertValidity"
    ELSE IF t < nb.val THEN "CertNotValidYet"
    ELSE IF t > na.val THEN "CertExpired"
    ELSE IF ~at_end(na.rest) THEN "BadDER"
    ELSE "Ok"

used_as_ca(ee_or_ca) == IF ee_or_ca = "EndEntity" THEN "No" ELSE "Yes"

\* the first half of check_basic_constraints: (is_ca, path_len_constraint)
\* read from the extension value, (false, None) when there is none
basic_constraints_values(input) ==
    IF ~input.some THEN [err |-> "Ok", is_ca |-> FALSE,
                         path_len_constraint |-> None, rest |-> <<>>]
    ELSE LET b == optional_boolean(input.value) IN
         IF b.err # "Ok"
         THEN [err |-> b.err, is_ca |-> FALSE, path_len_constraint |-> None,
               rest |-> <<>>]
         ELSE IF at_end(b.rest)
         THEN [err |-> "Ok", is_ca |-> b.val, path_len_constraint |-> None,
               rest |-> b.rest]
         ELSE LET l == small_nonnegative_integer(b.rest) IN
              [err |-> l.err, is_ca |-> b.val,
               path_len_constraint |-> Some(l.val), rest |-> l.rest]

basic_constraints_match_mut_ge(usedAsCa, is_ca, path_len_constraint, sub_ca_count) ==
    IF usedAsCa = "No" /\ is_ca THEN "CAUsedAsEndEntity"
    ELSE IF usedAsCa = "Yes" /\ ~is_ca THEN "EndEntityUsedAsCA"
    ELSE IF usedAsCa = "Yes" /\ is_ca /\ path_len_constraint.some
            /\ sub_ca_count >= path_len_constraint.value
         THEN "PathLenConstraintViolated"
    ELSE "Ok"

basic_constraints_match_mut_rfc(usedAsCa, is_ca, path_len_constraint, sub_ca_count) ==
    IF usedAsCa = "No" /\ is_ca THEN "CAUsedAsEndEntity"
    ELSE IF usedAsCa = "Yes" /\ ~is_ca THEN "EndEntityUsedAsCA"
    ELSE IF ~is_ca /\ path_len_constraint.some THEN "ExtensionValueInvalid"
    ELSE IF usedAsCa = "Yes" /\ is_ca /\ path_len_constraint.some
            /\ sub_ca_count > path_len_constraint.value
         THEN "PathLenConstraintViolated"
    ELSE "Ok"

\* the match on (used_as_ca, is_ca, path_len_constraint)
basic_constraints_match(usedAsCa, is_ca, path_len_constraint, sub_ca_count) ==
    IF usedAsCa = "No" /\ is_ca THEN "CAUsedAsEndEntity"
    ELSE IF usedAsCa = "Yes" /\ ~is_ca THEN "EndEntityUsedAsCA"
    ELSE IF usedAsCa = "Yes" /\ is_ca /\ path_len_constraint.some
            /\ sub_ca_count > path_len_constraint.value
         THEN "PathLenConstraintViolated"
    ELSE "Ok"

\* untrusted::read_all_optional(cert.basic_constraints, Error::BadDER,
\*     |value| check_basic_constraints(value, used_as_ca, sub_ca_count)):
\* the closure's error comes first, input left unread is BadDER
check_basic_constraints(input, usedAsCa, sub_ca_count) ==
    LET v == basic_constraints_values(input) IN
    IF v.err # "Ok" THEN v.err
    ELSE LET m == basic_constraints_match(usedAsCa, v.is_ca,
                                          v.path_len_constraint,
                                          sub_ca_count)
         IN  IF m # "Ok" THEN m
             ELSE IF ~at_end(v.rest) THEN "BadDER"
             ELSE "Ok"

\* the loop of check_eku over the elements of a present extension
RECURSIVE eku_loop(_, _, _)
eku_loop(input, match_step_up, required_eku_if_present) ==
    IF ~peek(input, "OID") THEN "BadDER"
    ELSE LET value == Head(input).val
             rest == Tail(input)
         IN  IF value = required_eku_if_present.oid_value
                \/ (match_step_up
                    /\ value = EKU_NETSCAPE_SERVER_STEP_UP.oid_value)
             THEN "Ok"
             ELSE IF at_end(rest) THEN "RequiredEKUNotFound"
             ELSE eku_loop(rest, match_step_up, required_eku_if_present)

check_eku_mut_step_up_anywhere(input, usedAsCa, required_eku_if_present) ==
    IF input.some
    THEN LET match_step_up ==
                 required_eku_if_present.oid_value = EKU_SERVER_AUTH.oid_value
         IN  eku_loop(input.value, match_step_up, required_eku_if_present)
    ELSE IF required_eku_if_present.oid_value = EKU_OCSP_SIGNING.oid_value
         THEN "RequiredEKUNotFound"
         ELSE "Ok"

\* untrusted::read_all_optional(cert.eku, Error::BadDER,
\*     |value| check_eku(value, used_as_ca, required_eku_if_present)); a
\* match skips to the end of the input, so nothing is left unread
check_eku(input, usedAsCa, required_eku_if_present) ==
    IF input.some
    THEN LET match_step_up ==
                 usedAsCa = "Yes"
                 /\ required_eku_if_present.oid_value
                        = EKU_SERVER_AUTH.oid_value
         IN  eku_loop(input.value, match_step_up, required_eku_if_present)
    ELSE IF required_eku_if_present.oid_value = EKU_OCSP_SIGNING.oid_value
         THEN "RequiredEKUNotFound"
         ELSE "Ok"

check_issuer_independent_properties_mut_order(c, t, usedAsCa, sub_ca_count, required_eku_if_present) ==
    LET v == check_validity(c.validity, t)
        b == check_basic_constraints(c.basic_constraints, usedAsCa,
                                     sub_ca_count)
        e == check_eku(c.eku, usedAsCa, required_eku_if_present)
    IN  IF b # "Ok" THEN b ELSE IF v # "Ok" THEN v ELSE e

check_issuer_independent_properties(c, t, usedAsCa, sub_ca_count, required_eku_if_present) ==
    LET v == check_validity(c.validity, t)
        b == check_basic_constraints(c.basic_constraints, usedAsCa,
                                     sub_ca_count)
        e == check_eku(c.eku, usedAsCa, required_eku_if_present)
    IN  IF v # "Ok" THEN v ELSE IF b # "Ok" THEN b ELSE e

-----------------------------------------------------------------------------
(* Collaborators whose code is outside src/: parse_cert, verify_signed_data *)
(* and check_name_constraints, after sections 4.3 to 4.5 of the design.     *)

\* the public-key family a signature algorithm expects
AlgFamily(alg) ==
    IF alg \in {"ECDSA_P256_SHA256", "ECDSA_P256_SHA1"} THEN "EC" ELSE "RSA"

\* the family of the key an SPKI holds
KeyFamily(spki) == IF spki % 2 = 0 THEN "RSA" ELSE "EC"

\* signed_data = [alg, signer]: signer is the key that made the signature
verify_signed_data(supported, spki_value, signed_data) ==
    IF signed_data.alg \notin supported THEN "UnsupportedSignatureAlgorithm"
    ELSE IF AlgFamily(signed_data.alg) # KeyFamily(spki_value)
         THEN "UnsupportedSignatureAlgorithmForPublicKey"
    ELSE IF signed_data.signer # spki_value
         THEN "InvalidSignatureForPublicKey"
    ELSE "Ok"

\* name constraints are [malformed, excluded]: the names of the excluded
\* subtrees; they are applied to the subject and to every SAN entry
check_name_constraints(input, c) ==
    IF ~input.some THEN "Ok"
    ELSE IF input.value.malformed THEN "BadDER"
    ELSE IF ({c.subject} \cup c.subject_alt_name) \cap input.value.excluded
            # {}
         THEN "NameConstraintViolation"
    ELSE "Ok"

\* a DER certificate is the outcome of parsing it: an error, or its fields
parse_cert(cert_der, ee_or_ca) ==
    IF cert_der.parse_error # "Ok" THEN Err(cert_der.parse_error)
    ELSE Ok([ee_or_ca |-> ee_or_ca,
             signed_data |-> cert_der.signed_data,
             issuer |-> cert_der.issuer,
             validity |-> cert_der.validity,
             subject |-> cert_der.subject,
             spki |-> cert_der.spki,
             basic_constraints |-> cert_der.basic_constraints,
             eku |-> cert_der.eku,
             name_constraints |-> cert_der.name_constraints,
             subject_alt_name |-> cert_der.subject_alt_name])

-----------------------------------------------------------------------------
(* The chain builder *)

MAX_SUB_CA_COUNT_mut_low == 6 - 1
MAX_SUB_CA_COUNT_mut_high == 6 + 1
MAX_SUB_CA_COUNT == 6

\* the certificates of the chain under construction, end-entity first
Chain(stk) == [k \in 1..Len(stk) |-> stk[k].cert]

check_signatures_mut_top_only(supported, chain, k, spki_value) ==
    verify_signed_data(supported, spki_value, chain[k].signed_data)

\* check_signatures, entered with k = Len(chain) and the trust anchor's key:
\* chain[k] is verified under spki_value, then its child under chain[k].spki
RECURSIVE check_signatures(_, _, _, _)
check_signatures(supported, chain, k, spki_value) ==
    LET r == verify_signed_data(supported, spki_value, chain[k].signed_data)
    IN  IF r # "Ok" THEN r
        ELSE IF chain[k].ee_or_ca = "CA"
             THEN check_signatures(supported, chain, k - 1, chain[k].spki)
             ELSE "Ok"

try_trust_anchor_mut_no_nc(chain, trust_anchor, supported) ==
    LET c == chain[Len(chain)] IN
    IF c.issuer # trust_anchor.subject THEN "UnknownIssuer"
    ELSE check_signatures(supported, chain, Len(chain), trust_anchor.spki)

\* the closure given to loop_while_non_fatal_error over trust_anchors
try_trust_anchor(chain, trust_anchor, supported) ==
    LET c == chain[Len(chain)] IN
    IF c.issuer # trust_anchor.subject THEN "UnknownIssuer"
    ELSE LET n == check_name_constraints(trust_anchor.name_constraints, c)
         IN  IF n # "Ok" THEN n
             ELSE check_signatures(supported, chain, Len(chain),
                                   trust_anchor.spki)

InChain_mut_current_only(chain, potential_issuer) ==
    /\ potential_issuer.spki = chain[Len(chain)].spki
    /\ potential_issuer.subject = chain[Len(chain)].subject

\* the loop that walks prev from the current certificate to the end-entity
InChain(chain, potential_issuer) ==
    \E k \in 1..Len(chain) :
        /\ potential_issuer.spki = chain[k].spki
        /\ potential_issuer.subject = chain[k].subject

try_intermediate_mut_always_inc(chain, cert_der, sub_ca_count) ==
    LET c == chain[Len(chain)]
        p == parse_cert(cert_der, "CA")
    IN  IF p.err # "Ok" THEN Err(p.err)
        ELSE IF p.val.subject # c.issuer THEN Err("UnknownIssuer")
        ELSE IF InChain(chain, p.val) THEN Err("UnknownIssuer")
        ELSE LET n == check_name_constraints(p.val.name_constraints, c)
             IN  IF n # "Ok" THEN Err(n)
                 ELSE Ok([cert |-> p.val,
                          sub_ca_count |-> sub_ca_count + 1,
                          pc |-> "start",
                          idx |-> 1])

\* the closure given to loop_while_non_fatal_error over intermediate_certs,
\* up to the recursive call: an error, or the frame of the call
try_intermediate(chain, cert_der, sub_ca_count) ==
    LET c == chain[Len(chain)]
        p == parse_cert(cert_der, "CA")
    IN  IF p.err # "Ok" THEN Err(p.err)
        ELSE IF p.val.subject # c.issuer THEN Err("UnknownIssuer")
        ELSE IF InChain(chain, p.val) THEN Err("UnknownIssuer")
        ELSE LET n == check_name_constraints(p.val.name_constraints, c)
             IN  IF n # "Ok" THEN Err(n)
                 ELSE Ok([cert |-> p.val,
                          sub_ca_count |->
                              IF used_as_ca(c.ee_or_ca) = "No"
                              THEN sub_ca_count ELSE sub_ca_count + 1,
                          pc |-> "start",
                          idx |-> 1])

build_chain_entry_mut_gt(frame, t) ==
    LET usedAsCa == used_as_ca(frame.cert.ee_or_ca)
        r == check_issuer_independent_properties(
                 frame.cert, t, usedAsCa, frame.sub_ca_count, EKU_SERVER_AUTH)
    IN  IF r # "Ok" THEN r
        ELSE IF usedAsCa = "Yes" /\ frame.sub_ca_count > MAX_SUB_CA_COUNT
             THEN "UnknownIssuer"
        ELSE IF usedAsCa = "No" /\ frame.sub_ca_count # 0
             THEN "panic"
        ELSE "Ok"

\* build_chain up to its first loop: the issuer-independent checks and the
\* path-length guard
build_chain_entry(frame, t) ==
    LET usedAsCa == used_as_ca(frame.cert.ee_or_ca)
        r == check_issuer_independent_properties(
                 frame.cert, t, usedAsCa, frame.sub_ca_count, EKU_SERVER_AUTH)
    IN  IF r # "Ok" THEN r
        ELSE IF usedAsCa = "Yes" /\ frame.sub_ca_count >= MAX_SUB_CA_COUNT
             THEN "UnknownIssuer"
        ELSE IF usedAsCa = "No" /\ frame.sub_ca_count # 0
             THEN "panic"   \* assert_eq!(0, sub_ca_count)
        ELSE "Ok"

next_candidate_mut_break(frame, e) ==
    [frame EXCEPT !.idx = IF frame.pc = "trust_anchors"
                          THEN Len(trust_anchors) + 1
                          ELSE Len(intermediate_certs) + 1]

next_candidate_mut_skip(frame, e) == [frame EXCEPT !.idx = @ + 2]

\* loop_while_non_fatal_error, Err(..) arm: the error is dropped and the
\* loop goes on to the next value
next_candidate(frame, e) == [frame EXCEPT !.idx = @ + 1]

Top == stack[Len(stack)]
Below == SubSeq(stack, 1, Len(stack) - 1)

\* the invocation on top of the stack returns Err(e) to its caller: the
\* end-entity's invocation returns to verify_is_valid_tls_server_cert, any
\* other to the closure over intermediate_certs of the invocation below
ReturnErr(e) ==
    IF Len(stack) = 1
    THEN /\ stack' = <<>>
         /\ result' = e
    ELSE /\ stack' = [Below EXCEPT ![Len(stack) - 1] = next_candidate(@, e)]
         /\ result' = result

\* a failed assertion unwinds every invocation
Panic ==
    /\ stack' = <<>>
    /\ result' = "panic"

\* Ok(()) returns through every loop_while_non_fatal_error on the stack
ReturnOk ==
    /\ stack' = <<>>
    /\ result' = "Ok"

Enter ==
    /\ stack # <<>>
    /\ Top.pc = "start"
    /\ LET r == build_chain_entry(Top, time) IN
       IF r = "panic" THEN Panic
       ELSE IF r # "Ok" THEN ReturnErr(r)
       ELSE /\ stack' = [stack EXCEPT ![Len(stack)].pc = "trust_anchors"]
            /\ result' = result
    /\ UNCHANGED <<inputs, fn_args, fn_result>>

TryTrustAnchor ==
    /\ stack # <<>>
    /\ Top.pc = "trust_anchors"
    /\ Top.idx <= Len(trust_anchors)
    /\ LET r == try_trust_anchor(Chain(stack), trust_anchors[Top.idx],
                                 supported_sig_algs) IN
       IF r = "Ok" THEN ReturnOk
       ELSE /\ stack' = [stack EXCEPT ![Len(stack)] = next_candidate(@, r)]
            /\ result' = result
    /\ UNCHANGED <<inputs, fn_args, fn_result>>

\* no trust anchor accepted: Err(..) => keep going with the intermediates
TrustAnchorsExhausted ==
    /\ stack # <<>>
    /\ Top.pc = "trust_anchors"
    /\ Top.idx > Len(trust_anchors)
    /\ stack' = [stack EXCEPT ![Len(stack)].pc = "intermediate_certs",
                              ![Len(stack)].idx = 1]
    /\ UNCHANGED <<inputs, result, fn_args, fn_result>>

TryIntermediate ==
    /\ stack # <<>>
    /\ Top.pc = "intermediate_certs"
    /\ Top.idx <= Len(intermediate_certs)
    /\ LET r == try_intermediate(Chain(stack), intermediate_certs[Top.idx],
                                 Top.sub_ca_count) IN
       IF r.err # "Ok"
       THEN stack' = [stack EXCEPT ![Len(stack)] = next_candidate(@, r.err)]
       ELSE stack' = Append(stack, r.val)
    /\ UNCHANGED <<inputs, result, fn_args, fn_result>>

\* every candidate failed: Err(Error::UnknownIssuer)
IntermediatesExhausted ==
    /\ stack # <<>>
    /\ Top.pc = "intermediate_certs"
    /\ Top.idx > Len(intermediate_certs)
    /\ ReturnErr("UnknownIssuer")
    /\ UNCHANGED <<inputs, fn_args, fn_result>>

-----------------------------------------------------------------------------
(* build_chain as the recursive function of its arguments that it is in the
   source. args holds the arguments every invocation passes on unchanged
   (supported_sig_algs, trust_anchors, intermediate_certs, time); stk is the
   call stack, the invocation evaluated on top. The value is the Result and,
   for Ok, the chain that was accepted. *)

RECURSIVE build_chain(_, _)
RECURSIVE trust_anchors_loop(_, _, _)
RECURSIVE intermediate_certs_loop(_, _, _)

\* loop_while_non_fatal_error(trust_anchors, ..), from the entry f.idx on
trust_anchors_loop(args, stk, f) ==
    IF f.idx > Len(args.trust_anchors) THEN "UnknownIssuer"
    ELSE LET r == try_trust_anchor(Chain(stk), args.trust_anchors[f.idx],
                                   args.supported_sig_algs)
         IN  IF r = "Ok" THEN "Ok"
             ELSE trust_anchors_loop(args, stk, next_candidate(f, r))

\* loop_while_non_fatal_error(intermediate_certs, ..), from the entry f.idx on
intermediate_certs_loop(args, stk, f) ==
    IF f.idx > Len(args.intermediate_certs)
    THEN [err |-> "UnknownIssuer", chain |-> <<>>]
    ELSE LET r == try_intermediate(Chain(stk),
                                   args.intermediate_certs[f.idx],
                                   stk[Len(stk)].sub_ca_count)
         IN  IF r.err # "Ok"
             THEN intermediate_certs_loop(args, stk, next_candidate(f, r.err))
             ELSE LET b == build_chain(args, Append(stk, r.val))
                  IN  IF b.err \in {"Ok", "panic"} THEN b
                      ELSE intermediate_certs_loop(
                               args, stk, next_candidate(f, b.err))

build_chain(args, stk) ==
    LET frame == stk[Len(stk)]
        r == build_chain_entry(frame, args.time)
    IN  IF r # "Ok" THEN [err |-> r, chain |-> <<>>]
        ELSE IF trust_anchors_loop(
                    args, stk, [frame EXCEPT !.pc = "trust_anchors"]) = "Ok"
             THEN [err |-> "Ok", chain |-> Chain(stk)]
        ELSE intermediate_certs_loop(
                 args, stk, [frame EXCEPT !.pc = "intermediate_certs"])

\* EndEntityCert::verify_is_valid_tls_server_cert
verify_is_valid_tls_server_cert(inner, supported, anchors, intermediates, t) ==
    build_chain([supported_sig_algs |-> supported,
                 trust_anchors |-> anchors,
                 intermediate_certs |-> intermediates,
                 time |-> t],
                <<[cert |-> inner, sub_ca_count |-> 0, pc |-> "start",
                   idx |-> 1]>>)

-----------------------------------------------------------------------------
(* The inputs drawn: certificates a caller can hand over *)

DerBool(b) == Elem("Boolean", <<b>>)
DerInt(n) == Elem("Integer", <<n>>)
DerOid(p) == Elem("OID", p.oid_value)
TimeAt(t) == Elem("UTCTime", [wellformed |-> TRUE, t |-> t])
BadTime == Elem("UTCTime", [wellformed |-> FALSE, t |-> 0])

SHA256For(key) ==
    IF KeyFamily(key) = "EC" THEN "ECDSA_P256_SHA256"
    ELSE "RSA_PKCS1_2048_8192_SHA256"

SHA1For(key) ==
    IF KeyFamily(key) = "EC" THEN "ECDSA_P256_SHA1"
    ELSE "RSA_PKCS1_2048_8192_SHA1"

Excluding(names) == Some([malformed |-> FALSE, excluded |-> names])

\* a CA certificate for subject s issued and signed by i, whose key is its
\* name; valid at every instant
CaDer(s, i) ==
    [parse_error |-> "Ok",
     signed_data |-> [alg |-> SHA256For(i), signer |-> i],
     issuer |-> i,
     validity |-> <<TimeAt(0), TimeAt(MaxTime)>>,
     subject |-> s,
     spki |-> s,
     basic_constraints |-> Some(<<DerBool(255)>>),
     eku |-> None,
     name_constraints |-> None,
     subject_alt_name |-> {}]

\* an end-entity certificate for subject s issued and signed by i
EeCert(s, i) ==
    [parse_cert([CaDer(s, i) EXCEPT !.basic_constraints = None],
                "EndEntity").val
     EXCEPT !.subject_alt_name = {s}]

Anchor(s) == [subject |-> s, spki |-> s, name_constraints |-> None]

ValidityChoices ==
    {<<TimeAt(nb), TimeAt(na)>> : nb \in 0..MaxTime, na \in 0..MaxTime}
    \cup {<<BadTime, TimeAt(MaxTime)>>, <<TimeAt(0)>>,
          <<TimeAt(0), TimeAt(MaxTime), TimeAt(MaxTime)>>}

BasicConstraintsChoices ==
    {None, Some(<<>>), Some(<<DerBool(255)>>), Some(<<DerBool(0)>>),
     Some(<<DerBool(1)>>), Some(<<DerInt(0)>>), Some(<<DerBool(255), DerBool(255)>>)}
    \cup {Some(<<DerBool(255), DerInt(l)>>) : l \in 0..MaxPathLen}

EkuChoices ==
    {None, Some(<<>>), Some(<<DerOid(EKU_SERVER_AUTH)>>),
     Some(<<DerOid(EKU_CLIENT_AUTH)>>),
     Some(<<DerOid(EKU_NETSCAPE_SERVER_STEP_UP)>>),
     Some(<<DerOid(EKU_CLIENT_AUTH), DerOid(EKU_SERVER_AUTH)>>)}

\* one change made to a chain that is otherwise in order: its kind, and for
\* a path_len the pathLenConstraint
Defect(kind, arg) == [kind |-> kind, arg |-> arg]

Defects ==
    {Defect(k, 0) :
        k \in {"none", "expired", "not_yet", "bad_time", "no_bc", "not_ca",
               "is_ca", "bad_sig", "sha1", "wrong_family", "eku_client",
               "eku_step_up", "unparsable", "issuer_excludes",
               "issuer_excludes_san", "issuer_nc_malformed", "cross_anchor",
               "cross_anchor_excludes", "mutual", "self_issued", "twin_key",
               "no_anchor"}}
    \cup {Defect("path_len", l) : l \in 0..MaxPathLen}

\* the DNS name in the SAN of the certificate for subject s
SanName(s) == s + 100

\* the defect as it changes the certificate it is put on
Defective(d, df) ==
    CASE df.kind = "expired" ->
             [d EXCEPT !.validity = <<TimeAt(0), TimeAt(0)>>]
      [] df.kind = "not_yet" ->
             [d EXCEPT !.validity = <<TimeAt(MaxTime), TimeAt(MaxTime)>>]
      [] df.kind = "bad_time" ->
             [d EXCEPT !.validity = <<TimeAt(0), BadTime>>]
      [] df.kind = "no_bc" -> [d EXCEPT !.basic_constraints = None]
      [] df.kind = "not_ca" ->
             [d EXCEPT !.basic_constraints = Some(<<DerBool(0), DerInt(0)>>)]
      [] df.kind = "is_ca" ->
             [d EXCEPT !.basic_constraints = Some(<<DerBool(255)>>)]
      [] df.kind = "path_len" ->
             [d EXCEPT !.basic_constraints = Some(<<DerBool(255), DerInt(df.arg)>>)]
      [] df.kind = "bad_sig" -> [d EXCEPT !.signed_data.signer = d.issuer + 2]
      [] df.kind = "sha1" -> [d EXCEPT !.signed_data.alg = SHA1For(d.issuer)]
      [] df.kind = "wrong_family" ->
             [d EXCEPT !.signed_data.alg = SHA256For(d.issuer + 1)]
      [] df.kind = "eku_client" ->
             [d EXCEPT !.eku = Some(<<DerOid(EKU_CLIENT_AUTH)>>)]
      [] df.kind = "eku_step_up" ->
             [d EXCEPT !.eku = Some(<<DerOid(EKU_NETSCAPE_SERVER_STEP_UP)>>)]
      [] OTHER -> d

\* the name constraints the issuer of the certificate at pos carries
IssuerConstraints(pos, df) ==
    CASE df.kind = "issuer_excludes" -> Excluding({pos})
      [] df.kind = "issuer_excludes_san" -> Excluding({SanName(pos)})
      [] df.kind = "issuer_nc_malformed" ->
             Some([malformed |-> TRUE, excluded |-> {}])
      [] OTHER -> None

ConstrainsIssuer(df) ==
    df.kind \in {"issuer_excludes", "issuer_excludes_san",
                 "issuer_nc_malformed"}

Reverse(s) == [k \in 1..Len(s) |-> s[Len(s) + 1 - k]]

\* EE <- I1 <- ... <- In <- anchor, names 0..n+1, with defect df at pos
ChainEe(pos, df) ==
    LET e == [EeCert(0, 1) EXCEPT !.subject_alt_name = {SanName(0)}] IN
    IF pos = 0 THEN Defective(e, df) ELSE e

ChainIntermediate(k, pos, df) ==
    LET d == IF k = pos
             THEN IF df.kind = "unparsable"
                  THEN [CaDer(k, k + 1) EXCEPT !.parse_error = "BadDER"]
                  ELSE Defective(CaDer(k, k + 1), df)
             ELSE CaDer(k, k + 1)
    IN  IF k = pos + 1 /\ ConstrainsIssuer(df)
        THEN [d EXCEPT !.name_constraints = IssuerConstraints(pos, df)]
        ELSE d

\* certificates that come on top of the chain's own
ChainExtras(pos, df) ==
    IF pos = 0 THEN <<>>
    ELSE CASE df.kind = "mutual" -> <<CaDer(pos + 1, pos)>>
           [] df.kind = "self_issued" -> <<CaDer(pos, pos)>>
           [] df.kind = "twin_key" ->
                  <<[CaDer(pos, pos + 1) EXCEPT !.spki = pos + 2]>>
           [] OTHER -> <<>>

ChainIntermediates(n, pos, df, rev) ==
    LET own == [k \in 1..n |-> ChainIntermediate(k, pos, df)]
        all == ChainExtras(pos, df) \o own
    IN  IF rev THEN Reverse(all) ELSE all

ChainAnchors(n, pos, df) ==
    LET main == IF df.kind = "no_anchor" THEN <<>>
                ELSE IF pos = n /\ ConstrainsIssuer(df)
                THEN <<[Anchor(n + 1) EXCEPT
                           !.name_constraints = IssuerConstraints(pos, df)]>>
                ELSE <<Anchor(n + 1)>>
        cross == IF pos = 0 THEN <<>>
                 ELSE CASE df.kind = "cross_anchor" -> <<Anchor(pos)>>
                        [] df.kind = "cross_anchor_excludes" ->
                               <<[Anchor(pos) EXCEPT !.name_constraints =
                                      Excluding({pos - 1})]>>
                        [] OTHER -> <<>>
    IN  cross \o main

Algs == {"ECDSA_P256_SHA256", "RSA_PKCS1_2048_8192_SHA256"}

Started(e) ==
    /\ cert = e
    /\ supported_sig_algs = Algs
    /\ stack = <<[cert |-> e, sub_ca_count |-> 0, pc |-> "start", idx |-> 1]>>
    /\ result = "none"
    /\ fn_args = <<>>
    /\ fn_result = "none"

\* a linear chain with one defect
InitChain ==
    \E n \in 0..MaxChain, pos \in 0..MaxChain, df \in Defects,
       rev \in BOOLEAN :
        /\ pos <= n
        /\ intermediate_certs = ChainIntermediates(n, pos, df, rev)
        /\ trust_anchors = ChainAnchors(n, pos, df)
        /\ time = 1
        /\ Started(ChainEe(pos, df))

\* any issuer graph over a few names: self-issued certificates, cycles,
\* mutual-issuer pairs, duplicates
GraphNames == 1..(MaxGraph + 1)

GraphCerts == {CaDer(s, i) : s \in GraphNames, i \in GraphNames}

SeqsUpTo(S, n) == UNION {[1..k -> S] : k \in 0..n}

InitGraph ==
    \E ints \in SeqsUpTo(GraphCerts, MaxGraph),
       anchors \in SeqsUpTo({Anchor(a) : a \in GraphNames}, 1) :
        /\ intermediate_certs = ints
        /\ trust_anchors = anchors
        /\ time = 1
        /\ Started(EeCert(0, 1))

\* any end-entity, directly under the anchor or under one intermediate
InitEndEntity ==
    \E v \in ValidityChoices, bc \in BasicConstraintsChoices,
       eku \in EkuChoices, t \in 0..MaxTime, n \in 0..1 :
        /\ intermediate_certs = ChainIntermediates(n, 0, Defect("none", 0),
                                                   FALSE)
        /\ trust_anchors = ChainAnchors(n, 0, Defect("none", 0))
        /\ time = t
        /\ Started([EeCert(0, 1) EXCEPT !.validity = v,
                                        !.basic_constraints = bc,
                                        !.eku = eku])

\* the validity periods that are in order, and the inverted ones
Windows == {<<TimeAt(nb), TimeAt(na)>> : nb \in 0..MaxTime, na \in 0..MaxTime}

\* one CA key certified twice, by anchor 2 and by anchor 3, the two
\* certificates with validity periods of their own, handed over in either
\* order, alone or together
InitWindows ==
    \E w2 \in Windows, w3 \in Windows, t \in 0..MaxTime,
       ints \in SeqsUpTo({2, 3}, 2),
       anchors \in SeqsUpTo({Anchor(2), Anchor(3)}, 2) :
        /\ intermediate_certs =
               [k \in 1..Len(ints) |->
                   [CaDer(1, ints[k]) EXCEPT
                       !.validity = IF ints[k] = 2 THEN w2 ELSE w3]]
        /\ trust_anchors = anchors
        /\ time = t
        /\ Started(EeCert(0, 1))

\* verify_is_valid_tls_server_cert has called build_chain(EKU_SERVER_AUTH,
\* supported_sig_algs, trust_anchors, intermediate_certs, &self.inner,
\* time, 0)
Init == InitChain \/ InitGraph \/ InitEndEntity \/ InitWindows

Next ==
    \/ Enter
    \/ TryTrustAnchor
    \/ TrustAnchorsExhausted
    \/ TryIntermediate
    \/ IntermediatesExhausted

Spec == Init /\ [][Next]_vars

\* build_chain runs to completion once called
FairSpec == Spec /\ WF_vars(Next)

-----------------------------------------------------------------------------
(* What the claims speak of, stated on the inputs *)

Done == result # "none"

Intermediates ==
    {intermediate_certs[i] : i \in 1..Len(intermediate_certs)}

\* the intermediates that parse
Parsed == {d \in Intermediates : d.parse_error = "Ok"}

Anchors == {trust_anchors[i] : i \in 1..Len(trust_anchors)}

\* the end-entity passes its own issuer-independent checks
EePasses ==
    check_issuer_independent_properties(cert, time, "No", 0, EKU_SERVER_AUTH)
        = "Ok"

\* c's signature verifies under the key spki
Verifies(spki, c) ==
    verify_signed_data(supported_sig_algs, spki, c.signed_data) = "Ok"

\* the name constraints nc, if any, allow c
Permits(nc, c) == check_name_constraints(nc, c) = "Ok"

WellFormedValidity(c) ==
    /\ Len(c.validity) = 2
    /\ \A k \in 1..2 : c.validity[k].val.wellformed

NotBefore(c) == c.validity[1].val.t
NotAfter(c) == c.validity[2].val.t

ValidAt(c, t) ==
    WellFormedValidity(c) /\ NotBefore(c) <= t /\ t <= NotAfter(c)

\* a pathLenConstraint as it is encoded
IsPathLen(e) == e.tag = "Integer" /\ Len(e.val) = 1 /\ e.val[1] < 128

\* Basic Constraints says cA = TRUE, with or without a pathLenConstraint
IsCa(c) ==
    /\ c.basic_constraints.some
    /\ LET v == c.basic_constraints.value IN
       /\ Len(v) \in 1..2
       /\ v[1] = DerBool(255)
       /\ Len(v) = 2 => IsPathLen(v[2])

HasPathLen(c) == IsCa(c) /\ Len(c.basic_constraints.value) = 2
PathLenOf(c) == c.basic_constraints.value[2].val[1]

\* c, with below CA certificates between it and the end-entity, is within
\* its own pathLenConstraint
PathLenAllows(c, below) == HasPathLen(c) => below <= PathLenOf(c)

\* the EKU of a CA allows server authentication
EkuAllowsCa(c) ==
    \/ ~c.eku.some
    \/ \E k \in 1..Len(c.eku.value) :
           /\ c.eku.value[k] \in {DerOid(EKU_SERVER_AUTH),
                                  DerOid(EKU_NETSCAPE_SERVER_STEP_UP)}
           /\ \A j \in 1..(k - 1) : c.eku.value[j].tag = "OID"

Id(c) == <<c.subject, c.spki>>

\* there are k intermediates d1..dk and an anchor with c <- d1 <- ... <- dk
\* <- anchor by issuer and subject, each signature verifying under the
\* issuer's key
RECURSIVE SignedChain(_, _)
SignedChain(c, k) ==
    \/ \E a \in Anchors : a.subject = c.issuer /\ Verifies(a.spki, c)
    \/ /\ k > 0
       /\ \E d \in Parsed :
              /\ d.subject = c.issuer
              /\ Verifies(d.spki, c)
              /\ SignedChain(d, k - 1)

\* there are exactly k further intermediates above c, then an anchor, every
\* certificate in order: issued and signed by the next, allowed by its name
\* constraints, a CA valid at the time and within its pathLenConstraint,
\* no (subject, key) twice.  ids: the pairs of c and of what is below it;
\* below: the CA certificates below the next intermediate
RECURSIVE GoodPath(_, _, _, _)
GoodPath(c, ids, below, k) ==
    IF k = 0
    THEN \E a \in Anchors :
             /\ a.subject = c.issuer
             /\ Permits(a.name_constraints, c)
             /\ Verifies(a.spki, c)
    ELSE \E d \in Parsed :
             /\ d.subject = c.issuer
             /\ Id(d) \notin ids
             /\ Permits(d.name_constraints, c)
             /\ Verifies(d.spki, c)
             /\ ValidAt(d, time)
             /\ IsCa(d)
             /\ PathLenAllows(d, below)
             /\ EkuAllowsCa(d)
             /\ GoodPath(d, ids \cup {Id(d)}, below + 1, k - 1)

GoodPathOf(k) == GoodPath(cert, {Id(cert)}, 0, k)

\* the issuer names reached from the end-entity over exactly j intermediates
RECURSIVE IssuerNames(_)
IssuerNames(j) ==
    IF j = 0 THEN {cert.issuer}
    ELSE LET prev == IssuerNames(j - 1) IN
         {d.issuer : d \in {x \in Parsed : x.subject \in prev}}

\* an anchor is reached over exactly j intermediates
AnchorAt(j) == \E a \in Anchors : a.subject \in IssuerNames(j)

-----------------------------------------------------------------------------
(* The claims *)

\* C1: verify_is_valid_tls_server_cert returns Ok only if there are
\* intermediates c1..ck and a trust anchor linked by issuer and subject from
\* the end-entity up, with verify_signed_data succeeding at every hop.
C1_SignaturesEndToEnd ==
    result = "Ok" => SignedChain(cert, 6)

\* accepted over intermediates, no anchor having issued the end-entity
C1_Witness ==
    /\ result = "Ok"
    /\ ~AnchorAt(0)
    /\ Len(intermediate_certs) >= 2

\* C2: the end-entity, six intermediate CAs in order and the trust anchor
\* that issued the sixth are accepted.
C2_SixIntermediatesAccepted ==
    (Done /\ EePasses /\ GoodPathOf(6)) => result = "Ok"

\* accepted where six intermediates are the only way to an anchor
C2_Witness ==
    /\ result = "Ok"
    /\ GoodPathOf(6)
    /\ \A j \in 0..5 : ~AnchorAt(j)

C4_DepthAtMostSeven == Len(stack) <= 7

\* C4: build_chain terminates on every list of intermediates and anchors,
\* and at most 8 invocations are active at once: the end-entity's, six for
\* the intermediates let through, and one for the seventh that the guard
\* turns away.
C4_TerminatesWithinEight == [](Len(stack) <= 8) /\ <>Done

\* the invocation for a seventh intermediate, above a mutual-issuer pair
C4_Witness ==
    /\ Len(stack) = 8
    /\ \E d \in Parsed, e \in Parsed :
           d.subject = e.issuer /\ e.subject = d.issuer /\ d # e

\* the end-entity is issued by I1 with pathLenConstraint 0, I1 by I2, I2 by
\* a trust anchor
C5_Scenario ==
    \E d1 \in Parsed, d2 \in Parsed, a \in Anchors :
        /\ d1.subject = cert.issuer
        /\ d2.subject = d1.issuer
        /\ a.subject = d2.issuer
        /\ HasPathLen(d1)
        /\ PathLenOf(d1) = 0

\* C5 as stated: that chain fails with PathLenConstraintViolated.
C5_FailsWithPathLen ==
    (Done /\ C5_Scenario) => result = "PathLenConstraintViolated"

\* the scenario with every certificate in order, and pathLenConstraint 0 on
\* every intermediate that names itself the end-entity's issuer
C5_InOrder ==
    /\ C5_Scenario
    /\ EePasses
    /\ GoodPathOf(2)
    /\ \A d \in Parsed :
           d.subject = cert.issuer => HasPathLen(d) /\ PathLenOf(d) = 0

\* C5: with every certificate otherwise in order that chain is accepted, I1
\* having no CA below it; and PathLenConstraintViolated is never what
\* verify_is_valid_tls_server_cert returns.
C5_PathLenZeroAccepted ==
    /\ (Done /\ C5_InOrder) => result = "Ok"
    /\ result # "PathLenConstraintViolated"

\* accepted through I1 and I2
C5_Witness ==
    /\ result = "Ok"
    /\ C5_InOrder
    /\ ~AnchorAt(0)
    /\ ~AnchorAt(1)

\* one trust anchor names itself the end-entity's issuer, and its name
\* constraints refuse the end-entity
C6_Scenario ==
    /\ Cardinality({i \in 1..Len(trust_anchors) :
                        trust_anchors[i].subject = cert.issuer}) = 1
    /\ \A a \in Anchors :
           a.subject = cert.issuer =>
               check_name_constraints(a.name_constraints, cert)
                   = "NameConstraintViolation"

\* C6 as stated: then verification fails with NameConstraintViolation.
C6_FailsWithNameConstraint ==
    (Done /\ C6_Scenario) => result = "NameConstraintViolation"

\* C6: for an end-entity that passes its own checks the anchor's refusal is
\* dropped: the result is UnknownIssuer, unless a chain over an
\* intermediate is accepted.
C6_AnchorRefusalDropped ==
    (Done /\ C6_Scenario /\ EePasses) =>
        \/ result = "UnknownIssuer"
        \/ /\ result = "Ok"
           /\ \E k \in 1..6 : GoodPathOf(k)

\* refused by the only anchor, nothing else to try
C6_Witness ==
    /\ result = "UnknownIssuer"
    /\ C6_Scenario
    /\ EePasses
    /\ Verifies(trust_anchors[1].spki, cert)

\* C7: with validity (notBefore, notAfter) and time t the end-entity gets
\* InvalidCertValidity if notBefore > notAfter, else CertNotValidYet if
\* t < notBefore, else CertExpired if t > notAfter; the check passes exactly
\* when notBefore <= t <= notAfter.
C7_ValidityOfEndEntity ==
    (Done /\ WellFormedValidity(cert)) =>
        LET nb == NotBefore(cert)
            na == NotAfter(cert)
            failed == result \in {"InvalidCertValidity", "CertNotValidYet",
                                  "CertExpired"}
        IN  /\ nb > na => result = "InvalidCertValidity"
            /\ (nb <= na /\ time < nb) => result = "CertNotValidYet"
            /\ (nb <= na /\ time >= nb /\ time > na) =>
                   result = "CertExpired"
            /\ failed <=> ~(nb <= time /\ time <= na)

\* accepted at the last instant of a validity that began earlier
C7_Witness ==
    /\ result = "Ok"
    /\ time = NotAfter(cert)
    /\ NotBefore(cert) < time

\* C8: when the end-entity passes its own checks and no candidate leads to
\* an accepted chain the result is UnknownIssuer, whatever the candidates
\* failed with; a failing candidate does not keep a later one from being
\* tried, so a chain in order is found wherever it stands in the lists.
C8_OnlyUnknownIssuer ==
    (Done /\ EePasses) =>
        /\ result \in {"Ok", "UnknownIssuer"}
        /\ result = "UnknownIssuer" => \A k \in 0..6 : ~GoodPathOf(k)

\* UnknownIssuer where the named issuer is there, and expired
C8_Witness ==
    /\ result = "UnknownIssuer"
    /\ EePasses
    /\ \E d \in Parsed :
           /\ d.subject = cert.issuer
           /\ WellFormedValidity(d)
           /\ time > NotAfter(d)

\* the three checks of the end-entity, each on its own
EeValidity == check_validity(cert.validity, time)
EeBasicConstraints == check_basic_constraints(cert.basic_constraints, "No", 0)
EeEku == check_eku(cert.eku, "No", EKU_SERVER_AUTH)

\* the first of them that fails, in the order validity, Basic Constraints,
\* EKU
EeFirstError ==
    IF EeValidity # "Ok" THEN EeValidity
    ELSE IF EeBasicConstraints # "Ok" THEN EeBasicConstraints
    ELSE EeEku

\* C9: an error of the end-entity's own checks is returned as it is, that
\* of the first check to fail in the order validity, Basic Constraints,
\* EKU, and before any trust anchor or intermediate is looked at.
C9_EndEntityErrorVerbatim ==
    EeFirstError # "Ok" =>
        \/ /\ result = "none"
           /\ Len(stack) = 1
           /\ stack[1].pc = "start"
        \/ /\ result = EeFirstError
           /\ stack = <<>>

\* an expired end-entity that is also a CA
C9_Witness ==
    /\ result = "CertExpired"
    /\ EeBasicConstraints = "CAUsedAsEndEntity"

-----------------------------------------------------------------------------
(* check_basic_constraints called on its own *)

\* extension values that decode: cA absent, FALSE or TRUE, then an optional
\* pathLenConstraint; and two that do not
BasicConstraintsInputs ==
    {None, Some(<<DerBool(1)>>), Some(<<DerBool(255), DerBool(255)>>)}
    \cup {Some(b) : b \in {<<>>, <<DerBool(0)>>, <<DerBool(255)>>}}
    \cup {Some(b \o <<DerInt(l)>>) :
              b \in {<<>>, <<DerBool(0)>>, <<DerBool(255)>>},
              l \in 0..MaxPathLen}

InitBasicConstraints ==
    /\ fn_args \in [input : BasicConstraintsInputs,
                    used_as_ca : {"Yes", "No"},
                    sub_ca_count : 0..MaxSubCaArg]
    /\ fn_result = "none"
    /\ cert = EeCert(0, 1)
    /\ intermediate_certs = <<>>
    /\ trust_anchors = <<>>
    /\ time = 1
    /\ supported_sig_algs = Algs
    /\ stack = <<>>
    /\ result = "none"

CallCheckBasicConstraints ==
    /\ fn_result = "none"
    /\ fn_result' = check_basic_constraints(fn_args.input, fn_args.used_as_ca,
                                            fn_args.sub_ca_count)
    /\ UNCHANGED <<inputs, stack, result, fn_args>>

SpecBasicConstraints ==
    InitBasicConstraints /\ [][CallCheckBasicConstraints]_vars

\* the extension value holds nothing but an optional cA and an optional
\* pathLenConstraint
DecodesBasicConstraints(input) ==
    input.some =>
        LET v == input.value IN
        \/ v = <<>>
        \/ Len(v) = 1 /\ (v[1] \in {DerBool(0), DerBool(255)} \/ IsPathLen(v[1]))
        \/ Len(v) = 2 /\ v[1] \in {DerBool(0), DerBool(255)} /\ IsPathLen(v[2])

BcIsCa(input) ==
    input.some /\ Len(input.value) >= 1 /\ input.value[1] = DerBool(255)

BcHasPathLen(input) ==
    input.some /\ Len(input.value) >= 1
    /\ IsPathLen(input.value[Len(input.value)])

BcPathLen(input) == input.value[Len(input.value)].val[1]

\* C10: check_basic_constraints takes an absent extension as is_ca = false
\* without pathLenConstraint and returns CAUsedAsEndEntity for a CA used as
\* end-entity, EndEntityUsedAsCA for a non-CA used as CA,
\* PathLenConstraintViolated for a CA used as CA with sub_ca_count > L, and
\* Ok otherwise, a non-CA end-entity with a pathLenConstraint included.
C10_BasicConstraintsTable ==
    (fn_result # "none" /\ DecodesBasicConstraints(fn_args.input)) =>
        LET is_ca == BcIsCa(fn_args.input)
            as_ca == fn_args.used_as_ca = "Yes"
        IN  fn_result =
                IF ~as_ca /\ is_ca THEN "CAUsedAsEndEntity"
                ELSE IF as_ca /\ ~is_ca THEN "EndEntityUsedAsCA"
                ELSE IF as_ca /\ is_ca /\ BcHasPathLen(fn_args.input)
                        /\ fn_args.sub_ca_count > BcPathLen(fn_args.input)
                     THEN "PathLenConstraintViolated"
                ELSE "Ok"

\* a non-CA end-entity that carries a pathLenConstraint: Ok
C10_Witness ==
    /\ fn_result = "Ok"
    /\ fn_args.used_as_ca = "No"
    /\ BcHasPathLen(fn_args.input)
    /\ ~BcIsCa(fn_args.input)

-----------------------------------------------------------------------------
(* check_eku called on its own *)

KeyPurposes ==
    {EKU_SERVER_AUTH, EKU_OCSP_SIGNING, EKU_NETSCAPE_SERVER_STEP_UP,
     EKU_CLIENT_AUTH}

\* lists of up to MaxEku key purposes; the same with an element that is no
\* OID put first or last
EkuInputs ==
    LET lists == SeqsUpTo({DerOid(p) : p \in KeyPurposes}, MaxEku)
        stray == Elem("Integer", <<1>>)
    IN  {None}
        \cup {Some(l) : l \in lists}
        \cup {Some(<<stray>> \o l) : l \in SeqsUpTo({DerOid(p) : p \in KeyPurposes}, 1)}
        \cup {Some(l \o <<stray>>) : l \in SeqsUpTo({DerOid(p) : p \in KeyPurposes}, 2)}

InitEku ==
    /\ fn_args \in [input : EkuInputs,
                    used_as_ca : {"Yes", "No"},
                    required_eku_if_present :
                        {EKU_SERVER_AUTH, EKU_OCSP_SIGNING, EKU_CLIENT_AUTH}]
    /\ fn_result = "none"
    /\ cert = EeCert(0, 1)
    /\ intermediate_certs = <<>>
    /\ trust_anchors = <<>>
    /\ time = 1
    /\ supported_sig_algs = Algs
    /\ stack = <<>>
    /\ result = "none"

CallCheckEku ==
    /\ fn_result = "none"
    /\ fn_result' = check_eku(fn_args.input, fn_args.used_as_ca,
                              fn_args.required_eku_if_present)
    /\ UNCHANGED <<inputs, stack, result, fn_args>>

SpecEku == InitEku /\ [][CallCheckEku]_vars

\* the extension, when there is one, is a list of one or more OIDs
WellFormedEku(input) ==
    input.some =>
        /\ Len(input.value) >= 1
        /\ \A k \in 1..Len(input.value) : input.value[k].tag = "OID"

\* the key purpose p is in the list
Lists(input, p) ==
    \E k \in 1..Len(input.value) : input.value[k].val = p.oid_value

\* C11: check_eku succeeds exactly when the extension is absent and the
\* required purpose is not OCSP-signing, or it lists the required purpose,
\* or the certificate is used as a CA, server-auth is required and it lists
\* Netscape Server Step-Up; every other well-formed case is
\* RequiredEKUNotFound.
C11_EkuPolicy ==
    (fn_result # "none" /\ WellFormedEku(fn_args.input)) =>
        LET input == fn_args.input
            required == fn_args.required_eku_if_present
            absent_ok == ~input.some /\ required # EKU_OCSP_SIGNING
            listed == input.some /\ Lists(input, required)
            step_up == /\ input.some
                       /\ fn_args.used_as_ca = "Yes"
                       /\ required = EKU_SERVER_AUTH
                       /\ Lists(input, EKU_NETSCAPE_SERVER_STEP_UP)
        IN  fn_result = IF absent_ok \/ listed \/ step_up THEN "Ok"
                        ELSE "RequiredEKUNotFound"

\* Step-Up alone satisfies server-auth for a CA
C11_Witness ==
    /\ fn_result = "Ok"
    /\ fn_args.used_as_ca = "Yes"
    /\ fn_args.input.some
    /\ ~Lists(fn_args.input, EKU_SERVER_AUTH)
    /\ Lists(fn_args.input, EKU_NETSCAPE_SERVER_STEP_UP)

-----------------------------------------------------------------------------
(* C13, C14: the chain under construction *)

\* the intermediate the current invocation is about to try, parsed
Candidate == parse_cert(intermediate_certs[Top.idx], "CA")

AtCandidate ==
    /\ stack # <<>>
    /\ Top.pc = "intermediate_certs"
    /\ Top.idx <= Len(intermediate_certs)
    /\ Candidate.err = "Ok"

\* C13: an intermediate whose (subject, spki) pair is that of the current
\* certificate or of a certificate below it on the chain is rejected as a
\* candidate issuer, and the chain under construction never holds two
\* certificates with the same (subject, spki) pair.
C13_LoopPrevention ==
    /\ (AtCandidate
        /\ \E k \in 1..Len(stack) : Id(stack[k].cert) = Id(Candidate.val))
       => try_intermediate(Chain(stack), intermediate_certs[Top.idx],
                           Top.sub_ca_count).err # "Ok"
    /\ \A j, k \in 1..Len(stack) :
           j # k => Id(stack[j].cert) # Id(stack[k].cert)

\* the candidate names the current certificate's issuer and is a
\* certificate further down the chain, not the current one
C13_Witness ==
    /\ AtCandidate
    /\ Candidate.val.subject = Top.cert.issuer
    /\ Id(Candidate.val) # Id(Top.cert)
    /\ \E k \in 2..(Len(stack) - 1) : Id(stack[k].cert) = Id(Candidate.val)

\* C14: in every invocation of build_chain sub_ca_count is the number of CA
\* certificates strictly between the end-entity and the current certificate
\* (0 for the end-entity and its direct issuer, one more per further hop),
\* and assert_eq!(0, sub_ca_count) never fails.
C14_SubCaCount ==
    /\ \A k \in 1..Len(stack) :
           /\ stack[k].sub_ca_count =
                  Cardinality({j \in 2..(k - 1) : stack[j].cert.ee_or_ca = "CA"})
           /\ stack[k].sub_ca_count = IF k <= 2 THEN 0 ELSE k - 2
    /\ result # "panic"

\* three CA certificates above the end-entity
C14_Witness ==
    /\ Len(stack) = 5
    /\ Top.sub_ca_count = 3
    /\ Top.pc = "trust_anchors"

-----------------------------------------------------------------------------
(* C12, C15: the call compared with the call on other arguments *)

\* the call made, at the instant t
VerifyAt(t) ==
    verify_is_valid_tls_server_cert(cert, supported_sig_algs, trust_anchors,
                                    intermediate_certs, t)

\* C12: the call returns what build_chain evaluates to, and when that is Ok
\* through some chain, the call with the same certificates, anchors and
\* algorithms is Ok at every instant inside the validity period of every
\* certificate of that chain.
C12_TimeMonotonic ==
    Done =>
        LET r == VerifyAt(time) IN
        /\ result = r.err
        /\ r.err = "Ok" =>
               \A t2 \in 0..MaxTime :
                   (\A k \in 1..Len(r.chain) : ValidAt(r.chain[k], t2))
                       => VerifyAt(t2).err = "Ok"

\* accepted through an intermediate; at another instant inside the validity
\* periods of that chain the call is Ok through a different chain, and at a
\* third instant it fails
C12_Witness ==
    /\ result = "Ok"
    /\ LET r == VerifyAt(time) IN
       /\ Len(r.chain) >= 2
       /\ \E t2 \in 0..MaxTime :
              /\ t2 # time
              /\ \A k \in 1..Len(r.chain) : ValidAt(r.chain[k], t2)
              /\ VerifyAt(t2).chain # r.chain
       /\ \E t3 \in 0..MaxTime : VerifyAt(t3).err # "Ok"

\* the list s with its entries j and k exchanged
Swapped(s, j, k) ==
    [i \in 1..Len(s) |-> IF i = j THEN s[k] ELSE IF i = k THEN s[j] ELSE s[i]]

\* the orders of the list s: all of them for a list of up to MaxPermuted
\* entries; for a longer one its reversal and every exchange of two
\* neighbours, out of which every order is made
Orders(s) ==
    IF Len(s) <= MaxPermuted
    THEN {[i \in 1..Len(s) |-> s[p[i]]] :
             p \in {f \in [1..Len(s) -> 1..Len(s)] :
                       \A i, j \in 1..Len(s) : f[i] = f[j] => i = j}}
    ELSE {s, Reverse(s)} \cup {Swapped(s, k, k + 1) : k \in 1..(Len(s) - 1)}

\* C15: the result of verify_is_valid_tls_server_cert, Ok or the error
\* value, is the same for every order of intermediate_certs and every order
\* of trust_anchors.
C15_OrderIndependent ==
    Done =>
        \A intermediates \in Orders(intermediate_certs),
           anchors \in Orders(trust_anchors) :
            verify_is_valid_tls_server_cert(
                cert, supported_sig_algs, anchors, intermediates, time).err
                = result

\* with the intermediates in another order the call is Ok through another
\* chain
C15_Witness ==
    /\ result = "Ok"
    /\ \E intermediates \in Orders(intermediate_certs) :
           LET r == verify_is_valid_tls_server_cert(
                        cert, supported_sig_algs, trust_anchors,
                        intermediates, time)
           IN  /\ r.err = "Ok"
               /\ r.chain # VerifyAt(time).chain

-----------------------------------------------------------------------------
(* der::time_choice on the bytes of the value. Above this layer a time
   element is kept as what time_choice makes of it (see time_choice); here
   the value is the sequence of its bytes. *)

\* time::days_in_month, outside src/: the Gregorian calendar
days_in_month(year, month) ==
    IF month \in {4, 6, 9, 11} THEN 30
    ELSE IF month # 2 THEN 31
    ELSE IF (year % 4 = 0 /\ year % 100 # 0) \/ year % 400 = 0 THEN 29
    ELSE 28

\* time::time_from_ymdhms_utc, outside src/: the instant of the calendar
\* fields, kept as the fields themselves, most significant first
time_from_ymdhms_utc(year, month, day_of_month, hours, minutes, seconds) ==
    IF /\ month \in 1..12
       /\ day_of_month \in 1..days_in_month(year, month)
       /\ hours \in 0..23
       /\ minutes \in 0..59
       /\ seconds \in 0..59
    THEN Ok(<<year, month, day_of_month, hours, minutes, seconds>>)
    ELSE Err("BadDERTime")

\* inner is the bytes not read yet
read_digit(inner) ==
    IF Len(inner) = 0 THEN ReadErr("BadDERTime")
    ELSE LET b == Head(inner) IN
         IF b < 48 \/ b > 57 THEN ReadErr("BadDERTime")
         ELSE Read(b - 48, Tail(inner))

read_two_digits(inner, min, max) ==
    LET hi == read_digit(inner) IN
    IF hi.err # "Ok" THEN hi
    ELSE LET lo == read_digit(hi.rest) IN
    IF lo.err # "Ok" THEN lo
    ELSE LET value == (hi.val * 10) + lo.val IN
    IF value < min \/ value > max THEN ReadErr("BadDERTime")
    ELSE Read(value, lo.rest)

time_choice_value_mut_window(value, is_utc_time) ==
    LET first == read_two_digits(value, 0, 99) IN
    IF first.err # "Ok" THEN first
    ELSE LET second == IF is_utc_time THEN first
                       ELSE read_two_digits(first.rest, 0, 99) IN
    IF second.err # "Ok" THEN second
    ELSE LET year_hi == IF is_utc_time
                        THEN IF first.val > 50 THEN 19 ELSE 20
                        ELSE first.val
             year_lo == second.val
             year == (year_hi * 100) + year_lo
             month == read_two_digits(second.rest, 1, 12) IN
    IF month.err # "Ok" THEN month
    ELSE LET day_of_month ==
                 read_two_digits(month.rest, 1,
                                 days_in_month(year, month.val)) IN
    IF day_of_month.err # "Ok" THEN day_of_month
    ELSE LET hours == read_two_digits(day_of_month.rest, 0, 23) IN
    IF hours.err # "Ok" THEN hours
    ELSE LET minutes == read_two_digits(hours.rest, 0, 59) IN
    IF minutes.err # "Ok" THEN minutes
    ELSE LET seconds == read_two_digits(minutes.rest, 0, 59) IN
    IF seconds.err # "Ok" THEN seconds
    ELSE IF Len(seconds.rest) = 0 THEN ReadErr("BadDERTime")
    ELSE IF Head(seconds.rest) # 90 THEN ReadErr("BadDERTime")
    ELSE LET t == time_from_ymdhms_utc(year, month.val, day_of_month.val,
                                       hours.val, minutes.val, seconds.val)
         IN  IF t.err # "Ok" THEN ReadErr(t.err)
             ELSE Read(t.val, Tail(seconds.rest))

\* the closure time_choice gives to nested: the bytes of the value are read
\* from the front; 90 is b'Z', 48..57 are b'0'..b'9'
time_choice_value(value, is_utc_time) ==
    LET first == read_two_digits(value, 0, 99) IN
    IF first.err # "Ok" THEN first
    ELSE LET second == IF is_utc_time THEN first
                       ELSE read_two_digits(first.rest, 0, 99) IN
    IF second.err # "Ok" THEN second
    ELSE LET year_hi == IF is_utc_time
                        THEN IF first.val >= 50 THEN 19 ELSE 20
                        ELSE first.val
             year_lo == second.val
             year == (year_hi * 100) + year_lo
             month == read_two_digits(second.rest, 1, 12) IN
    IF month.err # "Ok" THEN month
    ELSE LET day_of_month ==
                 read_two_digits(month.rest, 1,
                                 days_in_month(year, month.val)) IN
    IF day_of_month.err # "Ok" THEN day_of_month
    ELSE LET hours == read_two_digits(day_of_month.rest, 0, 23) IN
    IF hours.err # "Ok" THEN hours
    ELSE LET minutes == read_two_digits(hours.rest, 0, 59) IN
    IF minutes.err # "Ok" THEN minutes
    ELSE LET seconds == read_two_digits(minutes.rest, 0, 59) IN
    IF seconds.err # "Ok" THEN seconds
    ELSE IF Len(seconds.rest) = 0 THEN ReadErr("BadDERTime")
    ELSE IF Head(seconds.rest) # 90 THEN ReadErr("BadDERTime")
    ELSE LET t == time_from_ymdhms_utc(year, month.val, day_of_month.val,
                                       hours.val, minutes.val, seconds.val)
         IN  IF t.err # "Ok" THEN ReadErr(t.err)
             ELSE Read(t.val, Tail(seconds.rest))

\* time_choice: nested(input, expected_tag, Error::BadDER, ..) gives BadDER
\* for another tag and for bytes the closure left unread, and the closure's
\* own error otherwise
time_choice_der(input) ==
    LET is_utc_time == peek(input, "UTCTime")
        expected_tag == IF is_utc_time THEN "UTCTime" ELSE "GeneralizedTime"
    IN  IF ~peek(input, expected_tag) THEN ReadErr("BadDER")
        ELSE LET r == time_choice_value(Head(input).val, is_utc_time) IN
             IF r.err # "Ok" THEN ReadErr(r.err)
             ELSE IF Len(r.rest) # 0 THEN ReadErr("BadDER")
             ELSE Read(r.val, Tail(input))

TwoDigits(n) == <<48 + (n \div 10), 48 + (n % 10)>>

\* the bytes of a time value with these fields, each 0..99
TimeBytes(years, month, day, hms) ==
    years \o TwoDigits(month) \o TwoDigits(day) \o TwoDigits(hms[1])
          \o TwoDigits(hms[2]) \o TwoDigits(hms[3]) \o <<90>>

\* values of the two forms with fields at and around their limits
FieldTimes ==
    LET utc == {TwoDigits(y) : y \in {0, 16, 49, 50, 99}}
        gen == {TwoDigits(h) \o TwoDigits(l) :
                   h \in {0, 19, 20, 21, 99}, l \in {0, 16, 99}}
        months == {0, 1, 2, 4, 12, 13}
        days == {0, 1, 28, 29, 30, 31, 32}
        hmss == {<<0, 0, 0>>, <<23, 59, 59>>, <<24, 0, 0>>, <<0, 60, 0>>,
                 <<0, 0, 60>>}
    IN  {Elem("UTCTime", TimeBytes(y, m, d, t)) :
            y \in utc, m \in months, d \in days, t \in hmss}
        \cup {Elem("GeneralizedTime", TimeBytes(y, m, d, t)) :
                 y \in gen, m \in months, d \in days, t \in hmss}

\* two values that are in order, and each with one byte replaced, cut short,
\* followed by more bytes, or under the other tag or a tag that is no time
BrokenTimes ==
    LET base == {Elem("UTCTime",
                      TimeBytes(TwoDigits(49), 12, 31, <<23, 59, 59>>)),
                 Elem("GeneralizedTime",
                      TimeBytes(TwoDigits(20) \o TwoDigits(16), 2, 29,
                                <<0, 0, 0>>))}
        other == {47, 58, 32, 43, 90, 122, 48}
    IN  base
        \cup UNION {{Elem(e.tag, [e.val EXCEPT ![k] = b]) :
                        k \in 1..Len(e.val), b \in other} : e \in base}
        \cup UNION {{Elem(e.tag, SubSeq(e.val, 1, n)) :
                        n \in 0..(Len(e.val) - 1)} : e \in base}
        \cup {Elem(e.tag, e.val \o more) :
                 e \in base,
                 more \in SeqsUpTo({48, 90}, MaxTrailing) \ {<<>>}}
        \cup {Elem(tag, e.val) :
                 e \in base,
                 tag \in {"UTCTime", "GeneralizedTime", "Integer"}}

InitTimeChoice ==
    /\ fn_args \in [input : {<<>>}
                               \cup {<<e>> : e \in FieldTimes \cup BrokenTimes}]
    /\ fn_result = ReadErr("none")
    /\ cert = EeCert(0, 1)
    /\ intermediate_certs = <<>>
    /\ trust_anchors = <<>>
    /\ time = 1
    /\ supported_sig_algs = Algs
    /\ stack = <<>>
    /\ result = "none"

\* time_choice has not returned yet: fn_result is ReadErr("none")
CallTimeChoice ==
    /\ fn_result.err = "none"
    /\ fn_result' = time_choice_der(fn_args.input)
    /\ UNCHANGED <<inputs, stack, result, fn_args>>

SpecTimeChoice == InitTimeChoice /\ [][CallTimeChoice]_vars

\* the number written by the two bytes at k
Num(bytes, k) == ((bytes[k] - 48) * 10) + (bytes[k + 1] - 48)

\* the length of a value of this form
FormLen(tag) == IF tag = "UTCTime" THEN 13 ELSE 15

\* YYMMDDhhmmssZ or YYYYMMDDhhmmssZ, and nothing else
HasForm(tag, bytes) ==
    /\ Len(bytes) = FormLen(tag)
    /\ \A k \in 1..(FormLen(tag) - 1) : bytes[k] \in 48..57
    /\ bytes[FormLen(tag)] = 90

YearOf(tag, bytes) ==
    IF tag = "UTCTime"
    THEN IF Num(bytes, 1) \in 50..99 THEN 1900 + Num(bytes, 1)
         ELSE 2000 + Num(bytes, 1)
    ELSE (Num(bytes, 1) * 100) + Num(bytes, 3)

FieldsInRange(tag, bytes) ==
    LET at == FormLen(tag) - 10 IN
    /\ Num(bytes, at) \in 1..12
    /\ Num(bytes, at + 2) \in
           1..days_in_month(YearOf(tag, bytes), Num(bytes, at))
    /\ Num(bytes, at + 4) \in 0..23
    /\ Num(bytes, at + 6) \in 0..59
    /\ Num(bytes, at + 8) \in 0..59

\* as far as the form reaches, the value has a non-digit, an out-of-range
\* field, a missing byte or a terminator other than 'Z'
Deviates(tag, bytes) ==
    LET n == IF Len(bytes) < FormLen(tag) THEN Len(bytes) ELSE FormLen(tag)
        head == SubSeq(bytes, 1, n)
    IN  ~(HasForm(tag, head) /\ FieldsInRange(tag, head))

\* C16: time_choice accepts a value only if it is a UTCTime YYMMDDhhmmssZ
\* or a GeneralizedTime YYYYMMDDhhmmssZ with nothing after the 'Z', its
\* fields in range (month 1..12, day 1..days_in_month, hours 0..23, minutes
\* and seconds 0..59), the UTCTime year being 1900+YY for YY 50..99 and
\* 2000+YY for YY 00..49; a non-digit, an out-of-range field, a missing
\* byte or a terminator other than 'Z' gives BadDERTime.
C16_TimeChoice ==
    fn_result.err # "none" =>
        LET input == fn_args.input
            tag == input[1].tag
            bytes == input[1].val
            isTime == Len(input) = 1 /\ tag \in {"UTCTime", "GeneralizedTime"}
        IN  /\ fn_result.err = "Ok" =>
                   /\ isTime
                   /\ HasForm(tag, bytes)
                   /\ FieldsInRange(tag, bytes)
                   /\ fn_result.val[1] = YearOf(tag, bytes)
            /\ (isTime /\ Deviates(tag, bytes)) =>
                   fn_result.err = "BadDERTime"

\* a UTCTime of 1950 accepted, the first year of the window
C16_Witness ==
    /\ fn_result.err = "Ok"
    /\ fn_args.input[1].tag = "UTCTime"
    /\ Num(fn_args.input[1].val, 1) = 50
    /\ fn_result.val[1] = 1950

====
